---- MODULE Spec2Model ----
(***************************************************************************)
(* Model of MediaProcessorThread_TimeBased                                 *)
(* (src/src/object_detection_inference_engine.py): the capture loop of     *)
(* run(), the control methods another thread calls on it, and the          *)
(* release/report sequence after the loop.                                 *)
(* A second part models the application window (PPEMonitoringApp,          *)
(* src/src/main_application.py, and MonitoringPage, src/src/Gui_screens.py)*)
(* with each page's worker thread reduced to whether it is running, to the *)
(* alerts and the final summary it sends to the page, and to the texts the *)
(* page hands to RAGWorker (src/src/rag_handler.py).                       *)
(*                                                                         *)
(* Time is counted in ticks of half a second, so the program's 1.0 s is 2. *)
(* time.perf_counter() is the variable now; its reference point is         *)
(* undefined (Python's documentation), so its first reading is either 0 or *)
(* a value no smaller than the suppression window.  Every action that      *)
(* blocks in read(), sleeps or reads the clock again may advance now.      *)
(*                                                                         *)
(* Left out, because nothing reads them: the 1-second FPS window (two      *)
(* rolling counters and their start time), the attribute                   *)
(* inference_target_fps, target_processing_fps after the constructor, and  *)
(* the video file's reported duration.                                     *)
(***************************************************************************)
EXTENDS Integers, Sequences, FiniteSets, TLC

\* ------------------------------------------------------------ bounds
MaxTime == 7         \* the clock is not advanced beyond this reading
MaxFrames == 2       \* most successful reads in one session
MaxDet == 2          \* most boxes predict() returns for one frame
ValidationTicks == 4 \* validation_duration_sec, in ticks
MaxPages == 2        \* most monitoring pages created in one run of the application
MaxContext == 4      \* most alert texts one page's recent_violations_context holds

\* first readings of perf_counter()
ClockOrigins == {0, 2}

\* ticks one read() can block
ReadDelays == {0, 1, 2}

\* ticks that can pass before perf_counter() is read again for a box
BoxDelays == {0, 1}

\* labels the detection model returns in this model: one violation and one
\* label that is no violation (run() treats every violation label alike)
DetLabels == {"NO-Mask", "Person"}

\* target rates whose interval is a whole number of ticks
FpsChoices == {1, 2}

\* arguments of update_inference_fps: the rates, and two it rejects
FpsInputs == {-1, 0, 1, 2}

\* ------------------------------------------------------------ constants of the program
OneSecond == 2

violation_list == {"NO-Mask", "NO-Hardhat", "NO-Safety Vest"}

violation_suppression_sec == 2

ReconnectSleep == 2

validation_duration_sec == ValidationTicks

Absent == -1         \* a key the dict does not hold

Unbound == -1        \* a local variable not yet assigned

VARIABLES
  media_source,                  \* "camera" (an int) or "file" (a str)
  sampling_interval_sec,
  thread_active_status,
  object_detection_enabled,
  last_sample_timestamp,
  raw_frame_count_total,
  sampled_frame_count_total,
  validation_start_time,
  video_end_reached,
  actual_processing_duration_sec,
  violation_last_alert_time,     \* label -> time of its last alert, or Absent
  detected_violation_types,
  video_capture,                 \* "none", "open", "unopened", "released"
  current_time,                  \* local of run()
  boxes,                         \* number of boxes of the frame still to visit
  violation_detected_this_frame,
  drop_ratio,                    \* <<numerator, denominator>>
  now,                           \* time.perf_counter()
  pc,                            \* position of run()
  alert_channel,                 \* emissions of signal_violation_alert
  error_events,                  \* emissions of signal_error since the last frame
  frame_events,                  \* emissions of the current iteration, in order
  report,                        \* the printed validation report
  exitCause,                     \* history: which statement left the loop
  stopSeq,                       \* history: steps run after the loop
  hits,                          \* history: label -> its first violating detections
  last_emitted,                  \* history: label -> time of its latest alert event
  reopened,                      \* history: the source was opened a second time
  readsAfterEnd,                 \* history: reads attempted after video_end_reached
  rawAfterStop,                  \* history: raw frames counted after terminate_thread()
  lateFrames,                    \* history: raw frames counted whose read time is at
                                 \* or after the end of the validation time
  interval_at_test,              \* history: the interval the sampling test of this
                                 \* iteration read, 0 outside the sampling branch
  fps_rejected,                  \* history: update_inference_fps got a rate <= 0
  current_page,                  \* the widget page_switching shows
  monitoring_pages,              \* the MonitoringPage widgets, in order of creation
  recent_violations_context,     \* page -> the alert texts its slot has stored
  thread_violation_types,        \* page -> detected_violation_types of its thread
  rag_thread                     \* page -> violations_list of its RAGWorker, <<>> for none

vars == <<media_source, sampling_interval_sec, thread_active_status,
          object_detection_enabled, last_sample_timestamp, raw_frame_count_total,
          sampled_frame_count_total, validation_start_time, video_end_reached,
          actual_processing_duration_sec, violation_last_alert_time, detected_violation_types,
          video_capture, current_time, boxes,
          violation_detected_this_frame, drop_ratio, now,
          pc, alert_channel, error_events,
          frame_events, report, exitCause,
          stopSeq, hits, last_emitted,
          reopened, readsAfterEnd, rawAfterStop,
          lateFrames, interval_at_test, fps_rejected,
          current_page, monitoring_pages, recent_violations_context,
          thread_violation_types, rag_thread>>

\* ------------------------------------------------------------ helpers
\* 1.0 / fps, in ticks
SamplingInterval(fps) == OneSecond \div fps

\* dict.get(label, 0)
DictGet(d, label) == IF d[label] = Absent THEN 0 ELSE d[label]

\* the orders in which ", ".join(a_set) can list the set
JoinOrders(S) ==
  {s \in [1..Cardinality(S) -> S] : \A i, j \in 1..Cardinality(S) : s[i] = s[j] => i = j}

\* the alert text "[HH:MM:SS] VIOLATION: <label>"; the wall-clock stamp is left out
AlertEvent(label) == [kind |-> "alert", label |-> label, labels |-> <<>>]

\* the text "FINAL SUMMARY: All violations are: <labels>"
SummaryEvent(labels) == [kind |-> "summary", label |-> "", labels |-> labels]

\* positions of run() before the statements that follow the loop
LoopPcs == {"ready", "loop", "read", "reopen", "raw", "sample", "advance",
            "predict", "boxes", "limit"}

\* ------------------------------------------------------------ construction
Init ==
  /\ media_source \in {"camera", "file"}
  /\ \E target_processing_fps \in FpsChoices :
       sampling_interval_sec = SamplingInterval(target_processing_fps)
  /\ thread_active_status = TRUE
  /\ object_detection_enabled = FALSE
  /\ last_sample_timestamp = 0
  /\ raw_frame_count_total = 0
  /\ sampled_frame_count_total = 0
  /\ validation_start_time = 0
  /\ video_end_reached = FALSE
  /\ actual_processing_duration_sec = 0
  /\ violation_last_alert_time = [l \in violation_list |-> Absent]
  /\ detected_violation_types = {}
  /\ video_capture = "none"
  /\ current_time = Unbound
  /\ boxes = 0
  /\ violation_detected_this_frame = FALSE
  /\ drop_ratio = <<0, 1>>
  /\ now \in ClockOrigins
  /\ pc = "ready"
  /\ alert_channel = <<>>
  /\ error_events = <<>>
  /\ frame_events = <<>>
  /\ report = [printed |-> FALSE]
  /\ exitCause = "none"
  /\ stopSeq = <<>>
  /\ hits = [l \in violation_list |-> <<>>]
  /\ last_emitted = [l \in violation_list |-> Absent]
  /\ reopened = FALSE
  /\ readsAfterEnd = 0
  /\ rawAfterStop = 0
  /\ lateFrames = 0
  /\ interval_at_test = 0
  /\ fps_rejected = FALSE
  /\ current_page = "HOME"
  /\ monitoring_pages = <<>>
  /\ recent_violations_context = [p \in 1..MaxPages |-> <<>>]
  /\ thread_violation_types = [p \in 1..MaxPages |-> {}]
  /\ rag_thread = [p \in 1..MaxPages |-> <<>>]

\* ------------------------------------------------------------ control methods
\* The GUI thread calls these while the worker thread is in run(); after the
\* loop run() reads none of the three attributes.

\* variant: the interval is put at the rate, not at its reciprocal
UpdatedInterval_rate(interval, new_fps) ==
  IF new_fps > 0 THEN new_fps ELSE interval

\* variant: a rejected rate puts the interval of one frame per second
UpdatedInterval_reset(interval, new_fps) ==
  IF new_fps > 0 THEN SamplingInterval(new_fps) ELSE OneSecond

\* if new_fps > 0: self.sampling_interval_sec = 1.0 / new_fps
UpdatedInterval(interval, new_fps) ==
  IF new_fps > 0 THEN SamplingInterval(new_fps) ELSE interval

\* update_inference_fps(new_fps)
update_inference_fps(new_fps) ==
  /\ pc \in LoopPcs
  /\ sampling_interval_sec' = UpdatedInterval(sampling_interval_sec, new_fps)
  /\ fps_rejected' = (fps_rejected \/ new_fps <= 0)
  /\ UNCHANGED <<media_source, thread_active_status, object_detection_enabled,
                 last_sample_timestamp, raw_frame_count_total,
                 sampled_frame_count_total, validation_start_time, video_end_reached,
                 actual_processing_duration_sec, violation_last_alert_time,
                 detected_violation_types, video_capture, current_time, boxes,
                 violation_detected_this_frame, drop_ratio, now, pc, alert_channel,
                 error_events, frame_events, report, exitCause, stopSeq, hits,
                 last_emitted, reopened, readsAfterEnd, rawAfterStop, lateFrames,
                 interval_at_test, current_page, monitoring_pages,
                 recent_violations_context, thread_violation_types, rag_thread>>

\* toggle_object_detection(activation_state)
toggle_object_detection(activation_state) ==
  /\ pc \in LoopPcs
  /\ object_detection_enabled' = activation_state
  /\ UNCHANGED <<media_source, sampling_interval_sec, thread_active_status,
                 last_sample_timestamp, raw_frame_count_total,
                 sampled_frame_count_total, validation_start_time, video_end_reached,
                 actual_processing_duration_sec, violation_last_alert_time,
                 detected_violation_types, video_capture, current_time, boxes,
                 violation_detected_this_frame, drop_ratio, now, pc, alert_channel,
                 error_events, frame_events, report, exitCause, stopSeq, hits,
                 last_emitted, reopened, readsAfterEnd, rawAfterStop, lateFrames,
                 interval_at_test, fps_rejected, current_page, monitoring_pages,
                 recent_violations_context, thread_violation_types, rag_thread>>

\* terminate_thread()
terminate_thread ==
  /\ pc \in LoopPcs
  /\ thread_active_status' = FALSE
  /\ UNCHANGED <<media_source, sampling_interval_sec, object_detection_enabled,
                 last_sample_timestamp, raw_frame_count_total,
                 sampled_frame_count_total, validation_start_time, video_end_reached,
                 actual_processing_duration_sec, violation_last_alert_time,
                 detected_violation_types, video_capture, current_time, boxes,
                 violation_detected_this_frame, drop_ratio, now, pc, alert_channel,
                 error_events, frame_events, report, exitCause, stopSeq, hits,
                 last_emitted, reopened, readsAfterEnd, rawAfterStop, lateFrames,
                 interval_at_test, fps_rejected, current_page, monitoring_pages,
                 recent_violations_context, thread_violation_types, rag_thread>>

\* ------------------------------------------------------------ run(): before the loop
\* cv2.VideoCapture(media_source), which may or may not open the source, and the
\* timestamps taken from perf_counter()
RunStart ==
  /\ pc = "ready"
  /\ \E opened \in BOOLEAN :
       video_capture' = IF opened THEN "open" ELSE "unopened"
  /\ last_sample_timestamp' = now
  /\ validation_start_time' = now
  /\ pc' = "loop"
  /\ UNCHANGED <<media_source, sampling_interval_sec, thread_active_status,
                 object_detection_enabled, raw_frame_count_total,
                 sampled_frame_count_total, video_end_reached,
                 actual_processing_duration_sec, violation_last_alert_time,
                 detected_violation_types, current_time, boxes,
                 violation_detected_this_frame, drop_ratio, now, alert_channel,
                 error_events, frame_events, report, exitCause, stopSeq, hits,
                 last_emitted, reopened, readsAfterEnd, rawAfterStop, lateFrames,
                 interval_at_test, fps_rejected, current_page, monitoring_pages,
                 recent_violations_context, thread_violation_types, rag_thread>>

\* ------------------------------------------------------------ run(): the loop
\* variant: the loop condition does not read the flag
LoopContinues_always(active) == TRUE

\* the loop condition of while self.thread_active_status:
LoopContinues(active) == active

\* while self.thread_active_status:
LoopTest ==
  /\ pc = "loop"
  /\ IF LoopContinues(thread_active_status)
       THEN pc' = "read" /\ UNCHANGED exitCause
       ELSE pc' = "release" /\ exitCause' = "stop"
  /\ UNCHANGED <<media_source, sampling_interval_sec, thread_active_status,
                 object_detection_enabled, last_sample_timestamp,
                 raw_frame_count_total, sampled_frame_count_total,
                 validation_start_time, video_end_reached,
                 actual_processing_duration_sec, violation_last_alert_time,
                 detected_violation_types, video_capture, current_time, boxes,
                 violation_detected_this_frame, drop_ratio, now, alert_channel,
                 error_events, frame_events, report, stopSeq, hits, last_emitted,
                 reopened, readsAfterEnd, rawAfterStop, lateFrames, interval_at_test,
                 fps_rejected, current_page, monitoring_pages,
                 recent_violations_context, thread_violation_types, rag_thread>>

\* variant: no source is taken for a camera
IsCamera_never(source) == FALSE

\* variant: every source is taken for a camera
IsCamera_always(source) == TRUE

\* isinstance(self.media_source, int)
IsCamera(source) == source = "camera"

\* history: a read attempted after video_end_reached was set is counted
ReadAttempt == IF video_end_reached THEN readsAfterEnd + 1 ELSE readsAfterEnd

\* video_capture.read() returns a frame; current_time = perf_counter()
ReadOk ==
  /\ pc = "read"
  /\ video_capture = "open"
  /\ raw_frame_count_total < MaxFrames
  /\ \E d \in ReadDelays :
       /\ now + d <= MaxTime
       /\ now' = now + d
       /\ current_time' = now + d
  /\ readsAfterEnd' = ReadAttempt
  /\ pc' = "raw"
  /\ UNCHANGED <<media_source, sampling_interval_sec, thread_active_status,
                 object_detection_enabled, last_sample_timestamp,
                 raw_frame_count_total, sampled_frame_count_total,
                 validation_start_time, video_end_reached,
                 actual_processing_duration_sec, violation_last_alert_time,
                 detected_violation_types, video_capture, boxes,
                 violation_detected_this_frame, drop_ratio, alert_channel,
                 error_events, frame_events, report, exitCause, stopSeq, hits,
                 last_emitted, reopened, rawAfterStop, lateFrames, interval_at_test,
                 fps_rejected, current_page, monitoring_pages,
                 recent_violations_context, thread_violation_types, rag_thread>>

\* read() fails on a camera: the error event and release(), before the sleep
ReadFailCamera ==
  /\ pc = "read"
  /\ IsCamera(media_source)
  /\ \E d \in ReadDelays :
       /\ now + d <= MaxTime
       /\ now' = now + d
       /\ current_time' = now + d
  /\ error_events' = Append(error_events, "disconnected")
  /\ video_capture' = "released"
  /\ readsAfterEnd' = ReadAttempt
  /\ pc' = "reopen"
  /\ UNCHANGED <<media_source, sampling_interval_sec, thread_active_status,
                 object_detection_enabled, last_sample_timestamp,
                 raw_frame_count_total, sampled_frame_count_total,
                 validation_start_time, video_end_reached,
                 actual_processing_duration_sec, violation_last_alert_time,
                 detected_violation_types, boxes, violation_detected_this_frame,
                 drop_ratio, alert_channel, frame_events, report, exitCause, stopSeq,
                 hits, last_emitted, reopened, rawAfterStop, lateFrames,
                 interval_at_test, fps_rejected, current_page, monitoring_pages,
                 recent_violations_context, thread_violation_types, rag_thread>>

\* variant: the reopen is always reported as failed
ReopenEvent_failed(opened) == "failed"

\* the event that tells the outcome of the reopen
ReopenEvent(opened) == IF opened THEN "reconnected" ELSE "failed"

\* variant: the reference of the sampling test is put at the clock reading when
\* the source has been opened again
Reopen_restart ==
  /\ pc = "reopen"
  /\ now + ReconnectSleep <= MaxTime
  /\ now' = now + ReconnectSleep
  /\ reopened' = TRUE
  /\ last_sample_timestamp' = now + ReconnectSleep
  /\ \E opened \in BOOLEAN :
       /\ video_capture' = IF opened THEN "open" ELSE "unopened"
       /\ error_events' = Append(error_events, ReopenEvent(opened))
       /\ IF opened
            THEN pc' = "loop" /\ UNCHANGED exitCause
            ELSE pc' = "release" /\ exitCause' = "fatal"
  /\ UNCHANGED <<media_source, sampling_interval_sec, thread_active_status,
                 object_detection_enabled, raw_frame_count_total,
                 sampled_frame_count_total, validation_start_time, video_end_reached,
                 actual_processing_duration_sec, violation_last_alert_time,
                 detected_violation_types, current_time, boxes,
                 violation_detected_this_frame, drop_ratio, alert_channel,
                 frame_events, report, stopSeq, hits, last_emitted, readsAfterEnd,
                 rawAfterStop, lateFrames, interval_at_test, fps_rejected,
                 current_page, monitoring_pages, recent_violations_context,
                 thread_violation_types, rag_thread>>

\* time.sleep(1), cv2.VideoCapture(...) again and isOpened()
Reopen ==
  /\ pc = "reopen"
  /\ now + ReconnectSleep <= MaxTime
  /\ now' = now + ReconnectSleep
  /\ reopened' = TRUE
  /\ \E opened \in BOOLEAN :
       /\ video_capture' = IF opened THEN "open" ELSE "unopened"
       /\ error_events' = Append(error_events, ReopenEvent(opened))
       /\ IF opened
            THEN pc' = "loop" /\ UNCHANGED exitCause
            ELSE pc' = "release" /\ exitCause' = "fatal"
  /\ UNCHANGED <<media_source, sampling_interval_sec, thread_active_status,
                 object_detection_enabled, last_sample_timestamp,
                 raw_frame_count_total, sampled_frame_count_total,
                 validation_start_time, video_end_reached,
                 actual_processing_duration_sec, violation_last_alert_time,
                 detected_violation_types, current_time, boxes,
                 violation_detected_this_frame, drop_ratio, alert_channel,
                 frame_events, report, stopSeq, hits, last_emitted, readsAfterEnd,
                 rawAfterStop, lateFrames, interval_at_test, fps_rejected,
                 current_page, monitoring_pages, recent_violations_context,
                 thread_violation_types, rag_thread>>

\* read() fails on a file: the end of the video
ReadFailFile ==
  /\ pc = "read"
  /\ ~IsCamera(media_source)
  /\ \E d \in ReadDelays :
       /\ now + d <= MaxTime
       /\ now' = now + d
       /\ current_time' = now + d
  /\ readsAfterEnd' = ReadAttempt
  /\ video_end_reached' = TRUE
  /\ exitCause' = "eof"
  /\ pc' = "release"
  /\ UNCHANGED <<media_source, sampling_interval_sec, thread_active_status,
                 object_detection_enabled, last_sample_timestamp,
                 raw_frame_count_total, sampled_frame_count_total,
                 validation_start_time, actual_processing_duration_sec,
                 violation_last_alert_time, detected_violation_types, video_capture,
                 boxes, violation_detected_this_frame, drop_ratio, alert_channel,
                 error_events, frame_events, report, stopSeq, hits, last_emitted,
                 reopened, rawAfterStop, lateFrames, interval_at_test, fps_rejected,
                 current_page, monitoring_pages, recent_violations_context,
                 thread_violation_types, rag_thread>>

\* variant: the raw counter is not incremented
CountRaw_skip(n) == n

\* self.raw_frame_count_total += 1
CountRaw(n) == n + 1

\* the raw frame path: the raw counter and the raw-stream signal
RawPath ==
  /\ pc = "raw"
  /\ raw_frame_count_total' = CountRaw(raw_frame_count_total)
  /\ rawAfterStop' = IF thread_active_status THEN rawAfterStop ELSE rawAfterStop + 1
  /\ lateFrames' = IF current_time - validation_start_time >= validation_duration_sec
                     THEN lateFrames + 1
                     ELSE lateFrames
  /\ frame_events' = <<"raw">>
  /\ error_events' = <<>>
  /\ pc' = "sample"
  /\ UNCHANGED <<media_source, sampling_interval_sec, thread_active_status,
                 object_detection_enabled, last_sample_timestamp,
                 sampled_frame_count_total, validation_start_time, video_end_reached,
                 actual_processing_duration_sec, violation_last_alert_time,
                 detected_violation_types, video_capture, current_time, boxes,
                 violation_detected_this_frame, drop_ratio, now, alert_channel, report,
                 exitCause, stopSeq, hits, last_emitted, reopened, readsAfterEnd,
                 interval_at_test, fps_rejected, current_page, monitoring_pages,
                 recent_violations_context, thread_violation_types, rag_thread>>

\* variant: the test is a strict comparison
SampleDue_strict(t, last, interval) == t - last > interval

\* variant: every raw frame is sampled
SampleDue_always(t, last, interval) == TRUE

\* (current_time - self.last_sample_timestamp) >= self.sampling_interval_sec
SampleDue(t, last, interval) == t - last >= interval

\* variant: a frame that is not due goes to the detection all the same
SampleTest_predict ==
  /\ pc = "sample"
  /\ IF SampleDue(current_time, last_sample_timestamp, sampling_interval_sec)
       THEN pc' = "advance" /\ interval_at_test' = sampling_interval_sec
       ELSE /\ pc' = IF object_detection_enabled THEN "predict" ELSE "limit"
            /\ UNCHANGED interval_at_test
  /\ UNCHANGED <<media_source, sampling_interval_sec, thread_active_status,
                 object_detection_enabled, last_sample_timestamp,
                 raw_frame_count_total, sampled_frame_count_total,
                 validation_start_time, video_end_reached,
                 actual_processing_duration_sec, violation_last_alert_time,
                 detected_violation_types, video_capture, current_time, boxes,
                 violation_detected_this_frame, drop_ratio, now, alert_channel,
                 error_events, frame_events, report, exitCause, stopSeq, hits,
                 last_emitted, reopened, readsAfterEnd, rawAfterStop, lateFrames,
                 fps_rejected, current_page, monitoring_pages,
                 recent_violations_context, thread_violation_types, rag_thread>>

\* the sampling test
SampleTest ==
  /\ pc = "sample"
  /\ IF SampleDue(current_time, last_sample_timestamp, sampling_interval_sec)
       THEN pc' = "advance" /\ interval_at_test' = sampling_interval_sec
       ELSE pc' = "limit" /\ UNCHANGED interval_at_test
  /\ UNCHANGED <<media_source, sampling_interval_sec, thread_active_status,
                 object_detection_enabled, last_sample_timestamp,
                 raw_frame_count_total, sampled_frame_count_total,
                 validation_start_time, video_end_reached,
                 actual_processing_duration_sec, violation_last_alert_time,
                 detected_violation_types, video_capture, current_time, boxes,
                 violation_detected_this_frame, drop_ratio, now, alert_channel,
                 error_events, frame_events, report, exitCause, stopSeq, hits,
                 last_emitted, reopened, readsAfterEnd, rawAfterStop, lateFrames,
                 fps_rejected, current_page, monitoring_pages,
                 recent_violations_context, thread_violation_types, rag_thread>>

\* variant: the deadline is put at the reading of the clock, not advanced by
\* one interval
SampleAdvance_reset ==
  /\ pc = "advance"
  /\ last_sample_timestamp' = current_time
  /\ sampled_frame_count_total' = sampled_frame_count_total + 1
  /\ interval_at_test' = 0
  /\ frame_events' = Append(frame_events, "sampled")
  /\ pc' = IF object_detection_enabled THEN "predict" ELSE "limit"
  /\ UNCHANGED <<media_source, sampling_interval_sec, thread_active_status,
                 object_detection_enabled, raw_frame_count_total,
                 validation_start_time, video_end_reached,
                 actual_processing_duration_sec, violation_last_alert_time,
                 detected_violation_types, video_capture, current_time, boxes,
                 violation_detected_this_frame, drop_ratio, now, alert_channel,
                 error_events, report, exitCause, stopSeq, hits, last_emitted,
                 reopened, readsAfterEnd, rawAfterStop, lateFrames, fps_rejected,
                 current_page, monitoring_pages, recent_violations_context,
                 thread_violation_types, rag_thread>>

\* variant: the sampled frame goes to the detection whatever the flag holds
SampleAdvance_detect ==
  /\ pc = "advance"
  /\ last_sample_timestamp' = last_sample_timestamp + sampling_interval_sec
  /\ sampled_frame_count_total' = sampled_frame_count_total + 1
  /\ interval_at_test' = 0
  /\ frame_events' = Append(frame_events, "sampled")
  /\ pc' = "predict"
  /\ UNCHANGED <<media_source, sampling_interval_sec, thread_active_status,
                 object_detection_enabled, raw_frame_count_total,
                 validation_start_time, video_end_reached,
                 actual_processing_duration_sec, violation_last_alert_time,
                 detected_violation_types, video_capture, current_time, boxes,
                 violation_detected_this_frame, drop_ratio, now, alert_channel,
                 error_events, report, exitCause, stopSeq, hits, last_emitted,
                 reopened, readsAfterEnd, rawAfterStop, lateFrames, fps_rejected,
                 current_page, monitoring_pages, recent_violations_context,
                 thread_violation_types, rag_thread>>

\* the sampling branch up to the test of object_detection_enabled;
\* sampling_interval_sec is read a second time here
SampleAdvance ==
  /\ pc = "advance"
  /\ last_sample_timestamp' = last_sample_timestamp + sampling_interval_sec
  /\ sampled_frame_count_total' = sampled_frame_count_total + 1
  /\ interval_at_test' = 0
  /\ frame_events' = Append(frame_events, "sampled")
  /\ pc' = IF object_detection_enabled THEN "predict" ELSE "limit"
  /\ UNCHANGED <<media_source, sampling_interval_sec, thread_active_status,
                 object_detection_enabled, raw_frame_count_total,
                 validation_start_time, video_end_reached,
                 actual_processing_duration_sec, violation_last_alert_time,
                 detected_violation_types, video_capture, current_time, boxes,
                 violation_detected_this_frame, drop_ratio, now, alert_channel,
                 error_events, report, exitCause, stopSeq, hits, last_emitted,
                 reopened, readsAfterEnd, rawAfterStop, lateFrames, fps_rejected,
                 current_page, monitoring_pages, recent_violations_context,
                 thread_violation_types, rag_thread>>

\* ------------------------------------------------------------ detection
\* predict() on the sampled frame: the number of boxes it returns, or an
\* exception that run() does not catch.  The label of a box is drawn when the
\* box is visited.
Predict ==
  /\ pc = "predict"
  /\ \E ok \in BOOLEAN :
       IF ok
         THEN /\ boxes' \in 0..MaxDet
              /\ violation_detected_this_frame' = FALSE
              /\ frame_events' = Append(frame_events, "detection")
              /\ pc' = "boxes"
         ELSE /\ pc' = "crashed"
              /\ UNCHANGED <<boxes, violation_detected_this_frame, frame_events>>
  /\ UNCHANGED <<media_source, sampling_interval_sec, thread_active_status,
                 object_detection_enabled, last_sample_timestamp,
                 raw_frame_count_total, sampled_frame_count_total,
                 validation_start_time, video_end_reached,
                 actual_processing_duration_sec, violation_last_alert_time,
                 detected_violation_types, video_capture, current_time, drop_ratio,
                 now, alert_channel, error_events, report, exitCause, stopSeq, hits,
                 last_emitted, reopened, readsAfterEnd, rawAfterStop, lateFrames,
                 interval_at_test, fps_rejected, current_page, monitoring_pages,
                 recent_violations_context, thread_violation_types, rag_thread>>

\* variant: a suppression window of half a second
SuppressionPassed_short(t, last) == t - last >= 1

\* (current_alert_time - last_time) >= self.violation_suppression_sec
SuppressionPassed(t, last) == t - last >= violation_suppression_sec

\* history: the first three violating detections of each label
RecordHit(label, h) ==
  IF Len(hits[label]) < 3 THEN [hits EXCEPT ![label] = Append(@, h)] ELSE hits

\* one box of the frame: the label test, and for a violation the clock reading,
\* the suppression test and the alert
VisitBox ==
  /\ pc = "boxes"
  /\ boxes > 0
  /\ boxes' = boxes - 1
  /\ \E label \in DetLabels :
       IF label \in violation_list
         THEN \E d \in BoxDelays :
                /\ now + d <= MaxTime
                /\ now' = now + d
                /\ violation_detected_this_frame' = TRUE
                /\ LET t == now + d
                       last_time == DictGet(violation_last_alert_time, label)
                       pass == SuppressionPassed(t, last_time)
                   IN /\ hits' = RecordHit(label, [t |-> t, alerted |-> pass])
                      /\ last_emitted' = IF pass
                                           THEN [last_emitted EXCEPT ![label] = t]
                                           ELSE last_emitted
                      /\ IF pass
                           THEN /\ violation_last_alert_time' =
                                     [violation_last_alert_time EXCEPT ![label] = t]
                                /\ detected_violation_types' =
                                     detected_violation_types \cup {label}
                                /\ alert_channel' =
                                     Append(alert_channel, AlertEvent(label))
                                /\ frame_events' = Append(frame_events, "alert")
                           ELSE UNCHANGED <<violation_last_alert_time,
                                            detected_violation_types,
                                            alert_channel, frame_events>>
         ELSE UNCHANGED <<now, violation_detected_this_frame,
                          violation_last_alert_time, detected_violation_types,
                          hits, last_emitted, alert_channel, frame_events>>
  /\ UNCHANGED <<media_source, sampling_interval_sec, thread_active_status,
                 object_detection_enabled, last_sample_timestamp,
                 raw_frame_count_total, sampled_frame_count_total,
                 validation_start_time, video_end_reached,
                 actual_processing_duration_sec, video_capture, current_time,
                 drop_ratio, pc, error_events, report, exitCause, stopSeq, reopened,
                 readsAfterEnd, rawAfterStop, lateFrames, interval_at_test,
                 fps_rejected, current_page, monitoring_pages,
                 recent_violations_context, thread_violation_types, rag_thread>>

\* after the boxes: the violation image, if the frame held a violation
EndBoxes ==
  /\ pc = "boxes"
  /\ boxes = 0
  /\ frame_events' = IF violation_detected_this_frame
                       THEN Append(frame_events, "violation_image")
                       ELSE frame_events
  /\ pc' = "limit"
  /\ UNCHANGED <<media_source, sampling_interval_sec, thread_active_status,
                 object_detection_enabled, last_sample_timestamp,
                 raw_frame_count_total, sampled_frame_count_total,
                 validation_start_time, video_end_reached,
                 actual_processing_duration_sec, violation_last_alert_time,
                 detected_violation_types, video_capture, current_time, boxes,
                 violation_detected_this_frame, drop_ratio, now, alert_channel,
                 error_events, report, exitCause, stopSeq, hits, last_emitted,
                 reopened, readsAfterEnd, rawAfterStop, lateFrames, interval_at_test,
                 fps_rejected, current_page, monitoring_pages,
                 recent_violations_context, thread_violation_types, rag_thread>>

\* ------------------------------------------------------------ end of the iteration

\* variant: the limit is reached only when the elapsed time exceeds the
\* validation time
TimeLimit_strict ==
  /\ pc = "limit"
  /\ IF current_time - validation_start_time > validation_duration_sec
       THEN pc' = "release" /\ exitCause' = "timeout"
       ELSE pc' = "loop" /\ UNCHANGED exitCause
  /\ frame_events' = <<>>
  /\ violation_detected_this_frame' = FALSE
  /\ UNCHANGED <<media_source, sampling_interval_sec, thread_active_status,
                 object_detection_enabled, last_sample_timestamp,
                 raw_frame_count_total, sampled_frame_count_total,
                 validation_start_time, video_end_reached,
                 actual_processing_duration_sec, violation_last_alert_time,
                 detected_violation_types, video_capture, current_time, boxes,
                 drop_ratio, now, alert_channel, error_events, report, stopSeq, hits,
                 last_emitted, reopened, readsAfterEnd, rawAfterStop, lateFrames,
                 interval_at_test, fps_rejected, current_page, monitoring_pages,
                 recent_violations_context, thread_violation_types, rag_thread>>

\* the validation time limit, the last statement of the iteration: the log of
\* the iteration is closed and the local flag, dead from here on, is cleared
TimeLimit ==
  /\ pc = "limit"
  /\ IF current_time - validation_start_time >= validation_duration_sec
       THEN pc' = "release" /\ exitCause' = "timeout"
       ELSE pc' = "loop" /\ UNCHANGED exitCause
  /\ frame_events' = <<>>
  /\ violation_detected_this_frame' = FALSE
  /\ UNCHANGED <<media_source, sampling_interval_sec, thread_active_status,
                 object_detection_enabled, last_sample_timestamp,
                 raw_frame_count_total, sampled_frame_count_total,
                 validation_start_time, video_end_reached,
                 actual_processing_duration_sec, violation_last_alert_time,
                 detected_violation_types, video_capture, current_time, boxes,
                 drop_ratio, now, alert_channel, error_events, report, stopSeq, hits,
                 last_emitted, reopened, readsAfterEnd, rawAfterStop, lateFrames,
                 interval_at_test, fps_rejected, current_page, monitoring_pages,
                 recent_violations_context, thread_violation_types, rag_thread>>

\* ------------------------------------------------------------ after the loop
\* variant: the source is not released when the loop has been left
Release_skip ==
  /\ pc = "release"
  /\ video_capture' = video_capture
  /\ stopSeq' = Append(stopSeq, "release")
  /\ pc' = "ratio"
  /\ UNCHANGED <<media_source, sampling_interval_sec, thread_active_status,
                 object_detection_enabled, last_sample_timestamp,
                 raw_frame_count_total, sampled_frame_count_total,
                 validation_start_time, video_end_reached,
                 actual_processing_duration_sec, violation_last_alert_time,
                 detected_violation_types, current_time, boxes,
                 violation_detected_this_frame, drop_ratio, now, alert_channel,
                 error_events, frame_events, report, exitCause, hits, last_emitted,
                 reopened, readsAfterEnd, rawAfterStop, lateFrames, interval_at_test,
                 fps_rejected, current_page, monitoring_pages,
                 recent_violations_context, thread_violation_types, rag_thread>>

\* video_capture.release()
Release ==
  /\ pc = "release"
  /\ video_capture' = "released"
  /\ stopSeq' = Append(stopSeq, "release")
  /\ pc' = "ratio"
  /\ UNCHANGED <<media_source, sampling_interval_sec, thread_active_status,
                 object_detection_enabled, last_sample_timestamp,
                 raw_frame_count_total, sampled_frame_count_total,
                 validation_start_time, video_end_reached,
                 actual_processing_duration_sec, violation_last_alert_time,
                 detected_violation_types, current_time, boxes,
                 violation_detected_this_frame, drop_ratio, now, alert_channel,
                 error_events, frame_events, report, exitCause, hits, last_emitted,
                 reopened, readsAfterEnd, rawAfterStop, lateFrames, interval_at_test,
                 fps_rejected, current_page, monitoring_pages,
                 recent_violations_context, thread_violation_types, rag_thread>>

\* variant: the share of the frames that were sampled, not of those that were not
DropRatio_sampled(ended, raw, sampled) ==
  IF ended THEN <<0, 1>>
  ELSE IF raw > 0 THEN <<sampled, raw>>
  ELSE <<0, 1>>

\* variant: the drop ratio without the test of video_end_reached
DropRatio_counted(ended, raw, sampled) ==
  IF raw > 0 THEN <<raw - sampled, raw>> ELSE <<0, 1>>

\* the frame drop ratio 1.0 - sampled/raw as the fraction <<raw - sampled, raw>>
DropRatio(ended, raw, sampled) ==
  IF ended THEN <<0, 1>>
  ELSE IF raw > 0 THEN <<raw - sampled, raw>>
  ELSE <<0, 1>>

\* actual_processing_duration_sec = current_time - validation_start_time, which
\* raises UnboundLocalError when the loop body never ran (current_time is
\* assigned only inside the loop), and then the drop ratio
ComputeDropRatio ==
  /\ pc = "ratio"
  /\ IF current_time = Unbound
       THEN /\ pc' = "crashed"
            /\ UNCHANGED <<actual_processing_duration_sec, drop_ratio, stopSeq>>
       ELSE /\ actual_processing_duration_sec' = current_time - validation_start_time
            /\ drop_ratio' = DropRatio(video_end_reached, raw_frame_count_total,
                                       sampled_frame_count_total)
            /\ stopSeq' = Append(stopSeq, "ratio")
            /\ pc' = "summary"
  /\ UNCHANGED <<media_source, sampling_interval_sec, thread_active_status,
                 object_detection_enabled, last_sample_timestamp,
                 raw_frame_count_total, sampled_frame_count_total,
                 validation_start_time, video_end_reached, violation_last_alert_time,
                 detected_violation_types, video_capture, current_time, boxes,
                 violation_detected_this_frame, now, alert_channel, error_events,
                 frame_events, report, exitCause, hits, last_emitted, reopened,
                 readsAfterEnd, rawAfterStop, lateFrames, interval_at_test,
                 fps_rejected, current_page, monitoring_pages,
                 recent_violations_context, thread_violation_types, rag_thread>>

\* variant: the summary is emitted whatever the set holds
FinalSummaryDue_always(types) == TRUE

\* if self.detected_violation_types:
FinalSummaryDue(types) == types # {}

FinalSummary ==
  /\ pc = "summary"
  /\ IF FinalSummaryDue(detected_violation_types)
       THEN /\ \E listing \in JoinOrders(detected_violation_types) :
                 alert_channel' = Append(alert_channel, SummaryEvent(listing))
            /\ stopSeq' = Append(stopSeq, "summary")
       ELSE UNCHANGED <<alert_channel, stopSeq>>
  /\ pc' = "report"
  /\ UNCHANGED <<media_source, sampling_interval_sec, thread_active_status,
                 object_detection_enabled, last_sample_timestamp,
                 raw_frame_count_total, sampled_frame_count_total,
                 validation_start_time, video_end_reached,
                 actual_processing_duration_sec, violation_last_alert_time,
                 detected_violation_types, video_capture, current_time, boxes,
                 violation_detected_this_frame, drop_ratio, now, error_events,
                 frame_events, report, exitCause, hits, last_emitted, reopened,
                 readsAfterEnd, rawAfterStop, lateFrames, interval_at_test,
                 fps_rejected, current_page, monitoring_pages,
                 recent_violations_context, thread_violation_types, rag_thread>>

\* the line of the report that names the termination reason
TerminationReason(ended) ==
  IF ended THEN "Video file ended" ELSE "Validation time completed"

\* the printed report
FinalReport ==
  /\ pc = "report"
  /\ report' = [printed |-> TRUE,
                configured |-> validation_duration_sec,
                actual |-> actual_processing_duration_sec,
                raw |-> raw_frame_count_total,
                sampled |-> sampled_frame_count_total,
                drop |-> drop_ratio,
                reason |-> TerminationReason(video_end_reached)]
  /\ stopSeq' = Append(stopSeq, "report")
  /\ pc' = "done"
  /\ UNCHANGED <<media_source, sampling_interval_sec, thread_active_status,
                 object_detection_enabled, last_sample_timestamp,
                 raw_frame_count_total, sampled_frame_count_total,
                 validation_start_time, video_end_reached,
                 actual_processing_duration_sec, violation_last_alert_time,
                 detected_violation_types, video_capture, current_time, boxes,
                 violation_detected_this_frame, drop_ratio, now, alert_channel,
                 error_events, frame_events, exitCause, hits, last_emitted, reopened,
                 readsAfterEnd, rawAfterStop, lateFrames, interval_at_test,
                 fps_rejected, current_page, monitoring_pages,
                 recent_violations_context, thread_violation_types, rag_thread>>

\* ------------------------------------------------------------ specification
\* every session: the control methods called with arguments they accept, and
\* the steps of run()
Next ==
  \/ \E n \in FpsChoices : update_inference_fps(n)
  \/ \E b \in BOOLEAN : toggle_object_detection(b)
  \/ terminate_thread
  \/ RunStart
  \/ LoopTest
  \/ ReadOk
  \/ ReadFailCamera
  \/ Reopen
  \/ ReadFailFile
  \/ RawPath
  \/ SampleTest
  \/ SampleAdvance
  \/ Predict
  \/ VisitBox
  \/ EndBoxes
  \/ TimeLimit
  \/ Release
  \/ ComputeDropRatio
  \/ FinalSummary
  \/ FinalReport

Spec == Init /\ [][Next]_vars

\* the sessions in which detection is never switched on, so that lines 148-203
\* never run, with update_inference_fps called with any argument
NextRates ==
  \/ \E n \in FpsInputs : update_inference_fps(n)
  \/ terminate_thread
  \/ RunStart
  \/ LoopTest
  \/ ReadOk
  \/ ReadFailCamera
  \/ Reopen
  \/ ReadFailFile
  \/ RawPath
  \/ SampleTest
  \/ SampleAdvance
  \/ TimeLimit
  \/ Release
  \/ ComputeDropRatio
  \/ FinalSummary
  \/ FinalReport

SpecRates == Init /\ [][NextRates]_vars

\* the sessions in which update_inference_fps is never called, so that the
\* sampling interval stays the one the constructor computed
NextFixedRate ==
  \/ \E b \in BOOLEAN : toggle_object_detection(b)
  \/ terminate_thread
  \/ RunStart
  \/ LoopTest
  \/ ReadOk
  \/ ReadFailCamera
  \/ Reopen
  \/ ReadFailFile
  \/ RawPath
  \/ SampleTest
  \/ SampleAdvance
  \/ Predict
  \/ VisitBox
  \/ EndBoxes
  \/ TimeLimit
  \/ Release
  \/ ComputeDropRatio
  \/ FinalSummary
  \/ FinalReport

SpecFixedRate == Init /\ [][NextFixedRate]_vars

\* the sessions on a source that delivers MaxFrames frames, each exactly one
\* sampling interval after the one before, and then fails every read; no
\* control method is called
ReadOnTime == ReadOk /\ now' = now + sampling_interval_sec

ReadPastEnd ==
  /\ raw_frame_count_total = MaxFrames
  /\ ReadFailCamera \/ ReadFailFile

NextTrueRate ==
  \/ RunStart
  \/ LoopTest
  \/ ReadOnTime
  \/ ReadPastEnd
  \/ Reopen
  \/ RawPath
  \/ SampleTest
  \/ SampleAdvance
  \/ TimeLimit
  \/ Release
  \/ ComputeDropRatio
  \/ FinalSummary
  \/ FinalReport

SpecTrueRate == Init /\ [][NextTrueRate]_vars


\* the sessions on a source that delivers nothing for some time after the
\* start, then MaxFrames frames with no time between them, and then fails
\* every read; the rate is fixed and no control method is called
ReadAfterStall == raw_frame_count_total = 0 /\ ReadOk

ReadBackToBack == raw_frame_count_total > 0 /\ ReadOk /\ now' = now

NextStall ==
  \/ RunStart
  \/ LoopTest
  \/ ReadAfterStall
  \/ ReadBackToBack
  \/ ReadPastEnd
  \/ Reopen
  \/ RawPath
  \/ SampleTest
  \/ SampleAdvance
  \/ TimeLimit
  \/ Release
  \/ ComputeDropRatio
  \/ FinalSummary
  \/ FinalReport

SpecStall == Init /\ [][NextStall]_vars

\* the sessions that no caller stops: every step of run() and the two control
\* methods that leave thread_active_status alone
NextUnstopped ==
  \/ \E n \in FpsChoices : update_inference_fps(n)
  \/ \E b \in BOOLEAN : toggle_object_detection(b)
  \/ RunStart
  \/ LoopTest
  \/ ReadOk
  \/ ReadFailCamera
  \/ Reopen
  \/ ReadFailFile
  \/ RawPath
  \/ SampleTest
  \/ SampleAdvance
  \/ Predict
  \/ VisitBox
  \/ EndBoxes
  \/ TimeLimit
  \/ Release
  \/ ComputeDropRatio
  \/ FinalSummary
  \/ FinalReport

SpecUnstopped == Init /\ [][NextUnstopped]_vars

\* ------------------------------------------------------------ the application window
\* PPEMonitoringApp (src/src/main_application.py) and MonitoringPage
\* (src/src/Gui_screens.py).  A page's media_processor_thread is None ("none"),
\* a started thread whose run() has not returned ("running", or
\* "stop_requested" once terminate_thread() was called on it), or a thread
\* whose run() has returned ("finished").  navigate_to_page shows only the two
\* pages of app_pages, so the monitoring page on screen is the one created last.

\* mode identifiers of the buttons of ModeSelectionPage
ModeIds == {"VISION", "VIDEO", "RECORDED"}

\* QThread.isRunning()
isRunning(thread) == thread \in {"running", "stop_requested"}

\* the monitoring page on screen
ShownPage == Len(monitoring_pages)

\* navigate_to_page(page_id), from the start button of the home page and the
\* home buttons of the other pages
navigate_to_page(page_id) ==
  /\ page_id = "MODE_SELECTION" => current_page = "HOME"
  /\ page_id = "HOME" => current_page # "HOME"
  /\ current_page' = page_id
  /\ UNCHANGED <<media_source, sampling_interval_sec, thread_active_status,
                 object_detection_enabled, last_sample_timestamp,
                 raw_frame_count_total, sampled_frame_count_total,
                 validation_start_time, video_end_reached,
                 actual_processing_duration_sec, violation_last_alert_time,
                 detected_violation_types, video_capture, current_time, boxes,
                 violation_detected_this_frame, drop_ratio, now, pc, alert_channel,
                 error_events, frame_events, report, exitCause, stopSeq, hits,
                 last_emitted, reopened, readsAfterEnd, rawAfterStop, lateFrames,
                 interval_at_test, fps_rejected, monitoring_pages,
                 recent_violations_context, thread_violation_types, rag_thread>>

\* initialize_monitoring_session(mode_id), from a button of ModeSelectionPage
initialize_monitoring_session(mode_id) ==
  /\ current_page = "MODE_SELECTION"
  /\ Len(monitoring_pages) < MaxPages
  /\ monitoring_pages' = Append(monitoring_pages,
                                [mode_type |-> mode_id,
                                 media_processor_thread |-> "none"])
  /\ current_page' = "MONITORING"
  /\ UNCHANGED <<media_source, sampling_interval_sec, thread_active_status,
                 object_detection_enabled, last_sample_timestamp,
                 raw_frame_count_total, sampled_frame_count_total,
                 validation_start_time, video_end_reached,
                 actual_processing_duration_sec, violation_last_alert_time,
                 detected_violation_types, video_capture, current_time, boxes,
                 violation_detected_this_frame, drop_ratio, now, pc, alert_channel,
                 error_events, frame_events, report, exitCause, stopSeq, hits,
                 last_emitted, reopened, readsAfterEnd, rawAfterStop, lateFrames,
                 interval_at_test, fps_rejected, recent_violations_context,
                 thread_violation_types, rag_thread>>

\* handle_stream_activation(), the button of the monitoring page on screen: a
\* running thread is asked to stop; otherwise a thread is created, with an
\* empty detected_violation_types, and started, unless the file dialog of the
\* RECORDED mode is cancelled; recent_violations_context is left as it is
handle_stream_activation ==
  /\ current_page = "MONITORING"
  /\ LET page == monitoring_pages[ShownPage] IN
       IF page.media_processor_thread # "none" /\ isRunning(page.media_processor_thread)
         THEN /\ monitoring_pages' =
                   [monitoring_pages EXCEPT ![ShownPage].media_processor_thread = "stop_requested"]
              /\ UNCHANGED thread_violation_types
         ELSE \E file_chosen \in BOOLEAN :
                IF page.mode_type = "RECORDED" /\ ~file_chosen
                  THEN UNCHANGED <<monitoring_pages, thread_violation_types>>
                  ELSE /\ monitoring_pages' =
                            [monitoring_pages EXCEPT ![ShownPage].media_processor_thread = "running"]
                       /\ thread_violation_types' =
                            [thread_violation_types EXCEPT ![ShownPage] = {}]
  /\ UNCHANGED <<media_source, sampling_interval_sec, thread_active_status,
                 object_detection_enabled, last_sample_timestamp,
                 raw_frame_count_total, sampled_frame_count_total,
                 validation_start_time, video_end_reached,
                 actual_processing_duration_sec, violation_last_alert_time,
                 detected_violation_types, video_capture, current_time, boxes,
                 violation_detected_this_frame, drop_ratio, now, pc, alert_channel,
                 error_events, frame_events, report, exitCause, stopSeq, hits,
                 last_emitted, reopened, readsAfterEnd, rawAfterStop, lateFrames,
                 interval_at_test, fps_rejected, current_page,
                 recent_violations_context, rag_thread>>

\* run() of a page's thread returns
WorkerExit ==
  /\ \E p \in DOMAIN monitoring_pages :
       /\ isRunning(monitoring_pages[p].media_processor_thread)
       /\ monitoring_pages' =
            [monitoring_pages EXCEPT ![p].media_processor_thread = "finished"]
  /\ UNCHANGED <<media_source, sampling_interval_sec, thread_active_status,
                 object_detection_enabled, last_sample_timestamp,
                 raw_frame_count_total, sampled_frame_count_total,
                 validation_start_time, video_end_reached,
                 actual_processing_duration_sec, violation_last_alert_time,
                 detected_violation_types, video_capture, current_time, boxes,
                 violation_detected_this_frame, drop_ratio, now, pc, alert_channel,
                 error_events, frame_events, report, exitCause, stopSeq, hits,
                 last_emitted, reopened, readsAfterEnd, rawAfterStop, lateFrames,
                 interval_at_test, fps_rejected, current_page,
                 recent_violations_context, thread_violation_types, rag_thread>>

NextGui ==
  \/ \E page_id \in {"HOME", "MODE_SELECTION"} : navigate_to_page(page_id)
  \/ \E mode_id \in ModeIds : initialize_monitoring_session(mode_id)
  \/ handle_stream_activation
  \/ WorkerExit

SpecGui == Init /\ [][NextGui]_vars

\* the elements of a sequence
Range(s) == {s[i] : i \in DOMAIN s}

\* RAGWorker.run(): the labels of the "VIOLATION:" texts of violations_list,
\* each once, in the order of their first occurrence; a "FINAL SUMMARY" text
\* is skipped
RECURSIVE UniqueViolations(_)
UniqueViolations(violations_list) ==
  IF violations_list = <<>> THEN <<>>
  ELSE LET v == violations_list[Len(violations_list)]
           before == UniqueViolations(SubSeq(violations_list, 1, Len(violations_list) - 1))
       IN IF v.kind = "alert" /\ v.label \notin Range(before)
            THEN Append(before, v.label)
            ELSE before

\* update_violations_report(alert_text), the slot of signal_violation_alert of
\* page p: the text is stored, and a final summary starts a RAGWorker on the
\* stored texts.  The delivery of the signal is taken as one step with its
\* emission, and the worker as reading the list when it starts.
update_violations_report(p, alert_text) ==
  /\ recent_violations_context' =
       [recent_violations_context EXCEPT ![p] = Append(@, alert_text)]
  /\ rag_thread' =
       IF alert_text.kind = "summary"
         THEN [rag_thread EXCEPT ![p] = Append(recent_violations_context[p], alert_text)]
         ELSE rag_thread

\* the thread of page p emits an alert for a label (lines 186-197 of run())
WorkerAlert(p, label) ==
  /\ p \in DOMAIN monitoring_pages
  /\ isRunning(monitoring_pages[p].media_processor_thread)
  /\ Len(recent_violations_context[p]) + 1 < MaxContext
  /\ thread_violation_types' =
       [thread_violation_types EXCEPT ![p] = @ \cup {label}]
  /\ update_violations_report(p, AlertEvent(label))
  /\ UNCHANGED <<media_source, sampling_interval_sec, thread_active_status,
                 object_detection_enabled, last_sample_timestamp,
                 raw_frame_count_total, sampled_frame_count_total,
                 validation_start_time, video_end_reached,
                 actual_processing_duration_sec, violation_last_alert_time,
                 detected_violation_types, video_capture, current_time, boxes,
                 violation_detected_this_frame, drop_ratio, now, pc, alert_channel,
                 error_events, frame_events, report, exitCause, stopSeq, hits,
                 last_emitted, reopened, readsAfterEnd, rawAfterStop, lateFrames,
                 interval_at_test, fps_rejected, current_page, monitoring_pages>>

\* run() of the thread of page p comes to its end: the final summary, if the
\* set of violation types is not empty, and the return; or run() dies on an
\* exception before the summary
WorkerFinish(p) ==
  /\ p \in DOMAIN monitoring_pages
  /\ isRunning(monitoring_pages[p].media_processor_thread)
  /\ monitoring_pages' =
       [monitoring_pages EXCEPT ![p].media_processor_thread = "finished"]
  /\ \E raised \in BOOLEAN :
       IF ~raised /\ FinalSummaryDue(thread_violation_types[p])
         THEN \E listing \in JoinOrders(thread_violation_types[p]) :
                update_violations_report(p, SummaryEvent(listing))
         ELSE UNCHANGED <<recent_violations_context, rag_thread>>
  /\ UNCHANGED <<media_source, sampling_interval_sec, thread_active_status,
                 object_detection_enabled, last_sample_timestamp,
                 raw_frame_count_total, sampled_frame_count_total,
                 validation_start_time, video_end_reached,
                 actual_processing_duration_sec, violation_last_alert_time,
                 detected_violation_types, video_capture, current_time, boxes,
                 violation_detected_this_frame, drop_ratio, now, pc, alert_channel,
                 error_events, frame_events, report, exitCause, stopSeq, hits,
                 last_emitted, reopened, readsAfterEnd, rawAfterStop, lateFrames,
                 interval_at_test, fps_rejected, current_page, thread_violation_types>>

\* the labels a thread alerts in this part: two of violation_list
ReportLabels == {"NO-Mask", "NO-Hardhat"}

\* the sessions of the first monitoring page: its threads with their alerts
\* and final summaries, and the page's slot
FirstPage(mode_id) ==
  /\ monitoring_pages = <<>>
  /\ initialize_monitoring_session(mode_id)

NextReport ==
  \/ \E page_id \in {"HOME", "MODE_SELECTION"} : navigate_to_page(page_id)
  \/ \E mode_id \in ModeIds : FirstPage(mode_id)
  \/ handle_stream_activation
  \/ \E label \in ReportLabels : WorkerAlert(1, label)
  \/ WorkerFinish(1)

SpecReport == Init /\ [][NextReport]_vars
\* ------------------------------------------------------------ claims
\* number of occurrences of x in the sequence s
Count(s, x) == Len(SelectSeq(s, LAMBDA e : e = x))

\* last element of a non-empty sequence
Last(s) == s[Len(s)]

\* the summary events emitted so far
Summaries == SelectSeq(alert_channel, LAMBDA e : e.kind = "summary")

\* the alert events emitted so far for a label
AlertsOf(l) == SelectSeq(alert_channel, LAMBDA e : e = AlertEvent(l))

\* C1: in every reachable state, after any reads, failed reads, reconnections
\* and control operations, the sampled frame count is at most the raw frame count
C1_SampledAtMostRaw == sampled_frame_count_total <= raw_frame_count_total

C1_Witness ==
  /\ media_source = "camera"
  /\ reopened
  /\ ~thread_active_status
  /\ raw_frame_count_total = 2
  /\ sampled_frame_count_total = 1

\* C2: an alert event for a label is emitted only when the clock reading is at
\* least the suppression window after the label's last alert time, so two alert
\* events of one label are at least the window apart, also when the label is
\* detected several times in one frame
C2_AlertsSpaced ==
  [][\A l \in violation_list :
       alert_channel' = Append(alert_channel, AlertEvent(l))
         => /\ violation_last_alert_time[l] # Absent
                 => now' - violation_last_alert_time[l] >= violation_suppression_sec
            /\ last_emitted[l] # Absent
                 => now' - last_emitted[l] >= violation_suppression_sec
            /\ last_emitted'[l] = now']_vars

\* a label alerted, detected again at the same clock reading without an alert,
\* and alerted a second time later
C2_Witness ==
  \E l \in violation_list :
    /\ Len(hits[l]) = 3
    /\ hits[l][1].alerted /\ ~hits[l][2].alerted /\ hits[l][3].alerted
    /\ hits[l][2].t = hits[l][1].t
    /\ Len(AlertsOf(l)) = 2

\* C3: a label whose first three violation hits come at t0 < t1 < t2 with
\* t1 - t0 < window and t2 - t0 >= window gets exactly two alerts, at t0 and t2
C3_FirstAndThirdAlert ==
  \A l \in violation_list :
    LET h == hits[l] IN
      ( /\ Len(h) = 3
        /\ h[1].t < h[2].t /\ h[2].t < h[3].t
        /\ h[2].t - h[1].t < violation_suppression_sec
        /\ h[3].t - h[1].t >= violation_suppression_sec )
      => (h[1].alerted /\ ~h[2].alerted /\ h[3].alerted)

\* C4: the final summary is emitted at most once, only if the set of violation
\* types is not empty when the loop has been left, and lists each label of the
\* set exactly once however many alerts the label produced
C4_FinalSummaryOnce ==
  /\ Len(Summaries) <= 1
  /\ Len(Summaries) = 1 =>
       LET listing == Summaries[1].labels IN
         /\ pc \in {"report", "done"}
         /\ detected_violation_types # {}
         /\ {listing[i] : i \in DOMAIN listing} = detected_violation_types
         /\ \A i, j \in DOMAIN listing : listing[i] = listing[j] => i = j
         /\ Last(alert_channel).kind = "summary"
  /\ (pc \in {"report", "done"} /\ detected_violation_types = {}) => Len(Summaries) = 0

C4_Witness ==
  /\ Len(Summaries) = 1
  /\ \E l \in violation_list : Len(AlertsOf(l)) = 2

\* C5 as stated: on a camera, three consecutive failed reads followed by a
\* successful read leave the session running with exactly one "reconnected" event
C5_OneReconnectedEvent ==
  (media_source = "camera" /\ pc = "raw" /\ Count(error_events, "disconnected") = 3)
    => (exitCause = "none" /\ Count(error_events, "reconnected") = 1)

\* C5 amended: on a camera, three consecutive failed reads followed by a
\* successful read leave the session running with exactly three "reconnected"
\* events, one after each failed read
C5_ThreeReconnectedEvents ==
  (media_source = "camera" /\ pc = "raw" /\ Count(error_events, "disconnected") = 3)
    => /\ exitCause = "none"
       /\ ~video_end_reached
       /\ error_events = <<"disconnected", "reconnected", "disconnected",
                           "reconnected", "disconnected", "reconnected">>

C5_Witness ==
  /\ media_source = "camera"
  /\ pc = "raw"
  /\ Count(error_events, "disconnected") = 3

\* C6: on a camera a failed read emits the transient error, releases the handle
\* and reopens it; a failed reopen emits the fatal error and leaves the loop, a
\* successful one emits the recovered event and goes on to the next read without
\* setting video_end_reached
C6_CameraReadFailure ==
  /\ pc = "reopen" =>
       /\ media_source = "camera"
       /\ Last(error_events) = "disconnected"
       /\ video_capture = "released"
  /\ \A i \in DOMAIN error_events :
       IF i % 2 = 1 THEN error_events[i] = "disconnected"
       ELSE /\ error_events[i] \in {"reconnected", "failed"}
            /\ error_events[i] = "failed" => i = Len(error_events)
  /\ (error_events # <<>> /\ Last(error_events) = "failed") =>
       /\ exitCause = "fatal"
       /\ pc \notin LoopPcs
  /\ (error_events # <<>> /\ Last(error_events) = "reconnected") =>
       /\ exitCause \in {"none", "stop"}
       /\ pc \in {"loop", "read", "raw"} \/ exitCause = "stop"
       /\ pc \in LoopPcs => video_capture = "open"
  /\ media_source = "camera" => ~video_end_reached
  /\ error_events # <<>> => media_source = "camera"
  /\ Len(error_events) >= 2 => reopened

C6_Witness ==
  /\ error_events = <<"disconnected", "reconnected">>
  /\ pc = "read"
  /\ raw_frame_count_total = 1

\* C7: on a file the first failed read sets video_end_reached and ends the
\* session; the source is never released and reopened and no read follows
C7_FileEndsOnFailedRead ==
  /\ media_source = "file" => (~reopened /\ error_events = <<>>)
  /\ media_source = "file" => (video_end_reached <=> exitCause = "eof")
  /\ video_end_reached =>
       /\ pc \notin LoopPcs
       /\ readsAfterEnd = 0
  /\ (media_source = "file" /\ pc \in LoopPcs) => video_capture \in {"none", "open", "unopened"}

C7_Witness ==
  /\ media_source = "file"
  /\ video_end_reached
  /\ raw_frame_count_total = 1
  /\ pc = "done"

\* C8: when a file session ends on a failed read, the reported drop ratio is
\* exactly 0 and the reported reason is the end of the video, for every raw and
\* sampled count
C8_EndOfFileReport ==
  (pc = "done" /\ exitCause = "eof") =>
    /\ report.drop[1] = 0
    /\ report.reason = "Video file ended"

C8_Witness ==
  /\ pc = "done"
  /\ exitCause = "eof"
  /\ report.sampled < report.raw

\* the reason the report would give if it named the statement that left the loop
ReasonOf(cause) ==
  CASE cause = "eof" -> "Video file ended"
    [] cause = "timeout" -> "Validation time completed"
    [] cause = "stop" -> "Stopped by caller"
    [] OTHER -> "Reconnection failed"

\* C9: the report's termination reason tells end of stream, validation timeout
\* and explicit stop apart
C9_ReasonNamesCause ==
  (pc = "done" /\ exitCause \in {"eof", "timeout", "stop"}) =>
    report.reason = ReasonOf(exitCause)

\* the steps after the loop, in the order the claim gives
StopSequence ==
  <<"release", "ratio">>
    \o (IF detected_violation_types # {} THEN <<"summary">> ELSE <<>>)
    \o <<"report">>

\* C10: whichever way the loop is left (stop, also before the first iteration,
\* validation timeout, end of file, failed reopen), run() releases the source,
\* computes the drop ratio, emits the summary if there are violations and
\* prints the report
C10_SameStopSequence ==
  (exitCause # "none" /\ pc \in {"done", "crashed"}) =>
    (pc = "done" /\ stopSeq = StopSequence /\ video_capture = "released")

\* predict() raised: run() is left by the exception, not by a statement that
\* ends the loop
AdapterFailed == pc = "crashed" /\ exitCause = "none"

\* C11: a failing predict() on a sampled frame ends the session, is reported
\* as an error event, and the session still releases the source and prints the
\* report
C11_AdapterFailureReported ==
  AdapterFailed =>
    /\ error_events # <<>>
    /\ video_capture = "released"
    /\ report.printed

\* C12: after terminate_thread() the loop is left within one read and process
\* cycle: at most one more raw frame is read and counted, also when the call
\* comes during a camera reconnection, and the loop is not entered again
C12_StopWithinOneCycle ==
  /\ rawAfterStop <= 1
  /\ (~thread_active_status /\ pc = "reopen") => rawAfterStop = 0
  /\ (~thread_active_status /\ pc = "read") => rawAfterStop = 0
  /\ exitCause = "stop" => ~thread_active_status

\* terminate_thread() came while read() was blocking: the frame was counted,
\* the iteration finished and the loop test ended the loop
C12_Witness ==
  /\ rawAfterStop = 1
  /\ exitCause = "stop"
  /\ reopened
  /\ pc = "done"

\* C13: a call of update_inference_fps from the other thread during an
\* iteration takes effect from the next iteration: the deadline advances by the
\* interval the sampling test of the same iteration read
C13_OneIntervalPerIteration ==
  [][(pc = "advance" /\ pc' # "advance")
       => last_sample_timestamp' = last_sample_timestamp + interval_at_test]_vars

\* C14: update_inference_fps(n) with n <= 0 changes nothing: the sampling
\* interval after the call is the interval before it, so the sampling tests that
\* follow use the prior interval
C14_RejectedRateKeepsInterval ==
  [][\A n \in FpsInputs :
       (n <= 0 /\ update_inference_fps(n))
         => sampling_interval_sec' = sampling_interval_sec]_vars

\* a sampling test passed with the shorter interval in a session that saw a
\* rejected call
C14_Witness ==
  /\ fps_rejected
  /\ pc = "advance"
  /\ interval_at_test = 1
  /\ sampling_interval_sec = 1

\* the source did not open when run() started and has not been opened again
StartUnopened == video_capture = "unopened" /\ ~reopened

\* C15: a start with a source that cannot be opened is rejected: the loop is
\* not entered, so no reconnection is attempted and no end of the video is
\* reported for it
C15_UnopenedStartRejected ==
  [][StartUnopened =>
       /\ pc' \notin {"read", "reopen"}
       /\ ~video_end_reached'
       /\ error_events' = <<>>]_vars

\* the pages whose thread is running
RunningWorkers ==
  {p \in DOMAIN monitoring_pages : isRunning(monitoring_pages[p].media_processor_thread)}

\* C16: at every moment at most one capture worker is running, for every
\* sequence of activate requests, mode selections and page navigations
C16_OneWorkerRunning == Cardinality(RunningWorkers) <= 1

\* the time from the start of the validation to the latest read
Elapsed == current_time - validation_start_time

\* the elapsed time not yet covered by a sampled frame
Shortfall == Elapsed - sampled_frame_count_total * sampling_interval_sec

\* C17 as stated: with a fixed interval T, after every frame the number of
\* sampled frames differs from Elapsed / T by at most one, whatever the
\* arrival times of the raw frames
C17_SampledTracksElapsed ==
  pc = "limit" =>
    /\ Shortfall <= sampling_interval_sec
    /\ -Shortfall <= sampling_interval_sec

\* C17 amended: with a fixed interval T the deadline is the start plus T times
\* the sampled count, the sampled count never exceeds Elapsed / T nor the raw
\* count, and a frame that arrives when a whole interval or more is not yet
\* covered is sampled
C17_SampledNeverAhead ==
  /\ last_sample_timestamp =
       validation_start_time + sampled_frame_count_total * sampling_interval_sec
  /\ current_time # Unbound => Shortfall >= 0
  /\ sampled_frame_count_total <= raw_frame_count_total
  /\ (pc = "limit" /\ Shortfall >= sampling_interval_sec)
       => (Len(frame_events) >= 2 /\ frame_events[2] = "sampled")

\* two frames two intervals apart: both sampled, and still two intervals behind
C17_Witness ==
  /\ pc = "limit"
  /\ sampled_frame_count_total = 2
  /\ Shortfall = 2 * sampling_interval_sec

\* the raw count of a session on a source that delivers MaxFrames frames one
\* interval apart: all of them, or as many as fit into the validation time
FramesExpected ==
  IF (MaxFrames - 1) * sampling_interval_sec < validation_duration_sec
    THEN MaxFrames
    ELSE (validation_duration_sec + sampling_interval_sec - 1) \div sampling_interval_sec

C19_OverlayOnlyWithAlert ==
  Count(frame_events, "violation_image") > 0 => Count(frame_events, "alert") > 0

\* the emissions of one iteration are in causal order: the raw frame first,
\* the sampled frame second, everything of the detection after the two
CausalOrder(events) ==
  \A i \in DOMAIN events :
    /\ events[i] = "raw" <=> i = 1
    /\ events[i] = "sampled" => i = 2
    /\ events[i] \in {"detection", "alert", "violation_image"}
         => (i > 2 /\ events[2] = "sampled")

\* C20: within an iteration the raw-frame event precedes the sampled-frame
\* event, every alert and violation image of the frame comes after the
\* sampled-frame event, and no alert is emitted for a frame that was not sampled
C20_CausalOrder ==
  [][/\ CausalOrder(frame_events')
     /\ Len(alert_channel') > Len(alert_channel) /\ Last(alert_channel').kind = "alert"
          => /\ Len(frame_events) >= 2
             /\ frame_events[1] = "raw"
             /\ frame_events[2] = "sampled"
             /\ frame_events' = Append(frame_events, "alert")]_vars

C20_Witness ==
  frame_events = <<"raw", "sampled", "detection", "alert", "violation_image">>


\* C21: a label with no entry in the suppression state is emittable at once:
\* the first violating detection of a label in a session produces an alert
\* event whatever the clock reads at that moment, also a reading below the
\* suppression window
C21_FirstDetectionAlerts ==
  \A l \in violation_list : Len(hits[l]) >= 1 => hits[l][1].alerted

\* the smaller of two numbers
Least(a, b) == IF a <= b THEN a ELSE b

\* the whole sampling intervals that passed from the start to the latest read
IntervalsElapsed == Elapsed \div sampling_interval_sec

\* C22 as stated: after a stall of k >= 2 sampling intervals without a raw
\* frame the frames that then arrive back-to-back are not all sampled: fewer
\* than k of them are, so the missed intervals are not made up
C22_NoBurstAfterStall ==
  (pc = "limit" /\ IntervalsElapsed >= 2 /\ raw_frame_count_total >= IntervalsElapsed)
    => sampled_frame_count_total < IntervalsElapsed

\* C22 amended: after a stall of k sampling intervals without a raw frame the
\* deadline is k intervals behind, and of n frames that then arrive
\* back-to-back the first k (all of them if n <= k) are sampled, one per frame
C22_StallIsMadeUp ==
  pc = "limit" =>
    /\ sampled_frame_count_total = Least(raw_frame_count_total, IntervalsElapsed)
    /\ last_sample_timestamp =
         validation_start_time + sampled_frame_count_total * sampling_interval_sec

\* a stall of two intervals, then two frames at the same clock reading, both
\* sampled
C22_Witness ==
  /\ pc = "limit"
  /\ IntervalsElapsed = 2
  /\ raw_frame_count_total = 2
  /\ sampled_frame_count_total = 2
  /\ last_sample_timestamp = current_time

\* the positions of an iteration after its sampling decision
AfterSampling == {"predict", "boxes", "limit"}

\* C23 as stated: the deadline starts at the start time of the loop, so the
\* first raw frame of a session is sampled
C23_FirstFrameSampled ==
  (raw_frame_count_total = 1 /\ pc \in AfterSampling) => sampled_frame_count_total = 1

\* C23 amended: the reference of the sampling test starts at the start time
\* of the loop, and the first raw frame is sampled exactly when it is read one
\* sampling interval or more after the start
C23_FirstFrameSampledWhenDue ==
  /\ (raw_frame_count_total = 0 /\ pc # "ready")
       => last_sample_timestamp = validation_start_time
  /\ (raw_frame_count_total = 1 /\ pc \in AfterSampling)
       => (sampled_frame_count_total = 1 <=> Elapsed >= sampling_interval_sec)

\* the first frame, read half a second after the start at one frame per
\* second, is not sampled
C23_Witness ==
  /\ raw_frame_count_total = 1
  /\ pc = "limit"
  /\ sampling_interval_sec = 2
  /\ Elapsed = 1
  /\ sampled_frame_count_total = 0

\* C24: update_inference_fps(n) with n > 0 during a session puts the interval
\* at 1/n and leaves the reference timestamp of the sampling test, the frame
\* counters, the suppression state and the set of violation types as they
\* were; the sampling decisions after the call test against the new interval
C24_RateChangeKeepsDeadline ==
  [][/\ \A n \in FpsChoices :
          update_inference_fps(n)
            => /\ sampling_interval_sec' = SamplingInterval(n)
               /\ UNCHANGED <<last_sample_timestamp, raw_frame_count_total,
                              sampled_frame_count_total, violation_last_alert_time,
                              detected_violation_types, pc>>
     /\ sampling_interval_sec' # sampling_interval_sec
          => \E n \in FpsChoices : update_inference_fps(n)
     /\ (pc = "sample" /\ pc' # "sample")
          => (pc' = "advance"
                <=> current_time - last_sample_timestamp >= sampling_interval_sec)]_vars

\* the rate was raised after a sampled frame, and the next frame, half a
\* second after the deadline, is due under the new interval only
C24_Witness ==
  /\ pc = "advance"
  /\ sampled_frame_count_total = 1
  /\ last_sample_timestamp = validation_start_time + 2
  /\ sampling_interval_sec = 1
  /\ current_time - last_sample_timestamp = 1

\* the emissions of the detection branch
DetectionEvents == {"detection", "alert", "violation_image"}

\* C25: the detection runs at most once per sampled frame and only when the
\* flag is set at its test: an iteration whose frame is not sampled, or whose
\* test finds the detection disabled, emits no detection image, violation
\* image or alert and leaves the suppression state and the set of violation
\* types as they were
C25_DetectionOnlyWhenSampledAndEnabled ==
  [][/\ (pc' = "predict" /\ pc # "predict")
          => /\ pc = "advance"
             /\ object_detection_enabled
             /\ frame_events' = <<"raw", "sampled">>
     /\ (pc' = "boxes" /\ pc # "boxes") => pc = "predict"
     /\ (pc = "sample" /\ pc' \notin {"sample", "advance"}) => pc' = "limit"
     /\ (Len(frame_events') > Len(frame_events)
           /\ Last(frame_events') \in DetectionEvents)
          => /\ pc \in {"predict", "boxes"}
             /\ Len(frame_events) >= 2 /\ frame_events[2] = "sampled"
     /\ Count(frame_events', "detection") <= 1
     /\ ( \/ violation_last_alert_time' # violation_last_alert_time
          \/ detected_violation_types' # detected_violation_types
          \/ /\ Len(alert_channel') > Len(alert_channel)
             /\ Last(alert_channel').kind = "alert" )
          => (pc = "boxes" /\ Count(frame_events, "detection") = 1)]_vars

\* after an alert on the first frame the detection was switched off: the
\* second frame is sampled and nothing of the detection follows
C25_Witness ==
  /\ pc = "limit"
  /\ ~object_detection_enabled
  /\ frame_events = <<"raw", "sampled">>
  /\ sampled_frame_count_total = 2
  /\ detected_violation_types = {"NO-Mask"}
  /\ Len(alert_channel) = 1

\* the positions of run() after the drop ratio has been computed
RatioComputed == {"summary", "report", "done"}

\* C26: a session that ends otherwise than by the end of the video has the
\* drop ratio 1 - sampled/raw if the raw count is positive and 0 if it is 0;
\* in every session the drop ratio lies between 0 and 1
C26_DropRatioValue ==
  /\ drop_ratio[2] > 0
  /\ 0 <= drop_ratio[1] /\ drop_ratio[1] <= drop_ratio[2]
  /\ (pc \in RatioComputed /\ exitCause # "eof") =>
       /\ raw_frame_count_total > 0 =>
            drop_ratio = <<raw_frame_count_total - sampled_frame_count_total,
                           raw_frame_count_total>>
       /\ raw_frame_count_total = 0 => drop_ratio[1] = 0
  /\ pc = "done" => report.drop = drop_ratio

\* a session ended by the validation time with one of its two frames sampled
C26_Witness ==
  /\ pc = "done"
  /\ exitCause = "timeout"
  /\ report.raw = 2
  /\ report.sampled = 1
  /\ report.drop = <<1, 2>>

\* the violation labels detected so far on a sampled frame
DetectedLabels == {l \in violation_list : Len(hits[l]) > 0}

\* C27: the set of violation types only grows during a session and, when the
\* session has ended, holds every violation label that was detected on a
\* sampled frame with the detection enabled, and nothing else
C27_SetHoldsDetectedLabels ==
  /\ detected_violation_types \subseteq DetectedLabels
  /\ pc = "done" => detected_violation_types = DetectedLabels

\* C28: the raw and the sampled count never decrease, the raw count goes up by
\* exactly one for each successful read, and a failed read, with or without a
\* successful reconnection, leaves both counts, the reference and the interval
\* of the sampling test, the suppression state and the set of violation types
\* as they were
C28_CountsMonotone ==
  [][/\ raw_frame_count_total' >= raw_frame_count_total
     /\ sampled_frame_count_total' >= sampled_frame_count_total
     /\ (pc' = "raw" /\ pc # "raw") => (pc = "read" /\ video_capture = "open")
     /\ (pc = "raw" /\ pc' # "raw")
          => raw_frame_count_total' = raw_frame_count_total + 1
     /\ raw_frame_count_total' # raw_frame_count_total => pc = "raw"
     /\ ( \/ pc = "read" /\ pc' \in {"reopen", "release"}
          \/ pc = "reopen" /\ pc' # "reopen" )
          => UNCHANGED <<raw_frame_count_total, sampled_frame_count_total,
                         last_sample_timestamp, sampling_interval_sec,
                         violation_last_alert_time, detected_violation_types>>]_vars

\* a camera whose read failed after a sampled frame with an alert and that was
\* opened again
C28_Witness ==
  /\ pc = "loop"
  /\ error_events = <<"disconnected", "reconnected">>
  /\ raw_frame_count_total = 1
  /\ sampled_frame_count_total = 1
  /\ detected_violation_types = {"NO-Mask"}
  /\ last_sample_timestamp < now

\* the positions of an iteration from the raw frame path to the time limit
InIteration == {"sample", "advance", "predict", "boxes", "limit"}

\* C29: the validation time is tested only at the end of an iteration whose
\* read succeeded: a session counts at most one raw frame that was read at or
\* after the end of the validation time, and the loop is left at the end of
\* the iteration of that frame
C29_OneLateFrame ==
  /\ lateFrames <= 1
  /\ exitCause = "timeout" =>
       /\ lateFrames = 1
       /\ Elapsed >= validation_duration_sec
       /\ raw_frame_count_total >= 1
  /\ lateFrames = 1 =>
       \/ pc \in InIteration /\ Elapsed >= validation_duration_sec
       \/ exitCause = "timeout"
       \/ pc = "crashed"

\* a camera whose reads failed until the validation time was over: the one
\* frame read after the reconnection ended the session
C29_Witness ==
  /\ pc = "done"
  /\ exitCause = "timeout"
  /\ reopened
  /\ lateFrames = 1
  /\ report.raw = 1
  /\ report.actual > validation_duration_sec

\* C30: with time advancing and no stop request every session ends, by the
\* validation time, the end of the video or a failed reconnection, whatever
\* the reads and the reopens of a camera return.  On finite runs: once a read,
\* failed or not, has found the validation time over, no further iteration
\* of the loop begins
C30_NoIterationAfterValidationTime ==
  (pc \in {"loop", "read"} /\ thread_active_status /\ current_time # Unbound)
    => Elapsed < validation_duration_sec

\* C31: video_end_reached is true only for a file: in every state of a camera
\* session, after any read failures and reconnections and after a failed
\* reopen, it is false, and the report of a camera session names neither the
\* end of the video nor the drop ratio of an ended video
C31_CameraNeverEndsVideo ==
  media_source = "camera" =>
    /\ ~video_end_reached
    /\ exitCause # "eof"
    /\ readsAfterEnd = 0
    /\ pc = "done" =>
         /\ report.reason # "Video file ended"
         /\ report.drop = IF report.raw > 0
                             THEN <<report.raw - report.sampled, report.raw>>
                             ELSE <<0, 1>>

\* a camera session that ended on a failed reopen, with one of its two frames
\* sampled
C31_Witness ==
  /\ media_source = "camera"
  /\ pc = "done"
  /\ exitCause = "fatal"
  /\ report.raw = 2
  /\ report.sampled = 1
  /\ report.drop = <<1, 2>>

\* C32: the sampling clock never runs ahead of real time: the reference
\* timestamp of the sampling test, the start time plus the intervals of all
\* samples taken, is at most the read time of the current frame, also when
\* update_inference_fps is called while run() executes
C32_ClockNeverAhead ==
  current_time # Unbound => last_sample_timestamp <= current_time

\* C33: the final summary is the last event of a session on the alert
\* channel: it is emitted after the source has been released, and after it
\* the session emits no alert, no frame event and no error event
C33_SummaryIsLastEvent ==
  [][/\ Len(Summaries') > Len(Summaries)
          => /\ pc = "summary"
             /\ video_capture = "released"
             /\ stopSeq = <<"release", "ratio">>
             /\ alert_channel' = Append(alert_channel, Last(alert_channel'))
     /\ Len(Summaries) >= 1
          => UNCHANGED <<alert_channel, frame_events, error_events, video_capture>>]_vars

\* a session that was stopped after an alert and has printed its report: the
\* summary closes the channel
C33_Witness ==
  /\ pc = "done"
  /\ exitCause = "stop"
  /\ Len(alert_channel) = 2
  /\ alert_channel[1].kind = "alert"
  /\ alert_channel[2].kind = "summary"
  /\ video_capture = "released"

\* C34: nothing of a session leaks into a later session on the same page: the
\* violation labels handed to the retrieval when the final summary of a
\* session arrives are exactly the labels alerted in that session, which the
\* summary lists
C34_RetrievalGetsSessionLabels ==
  \A p \in 1..MaxPages :
    rag_thread[p] # <<>>
      => Range(UniqueViolations(rag_thread[p])) = Range(Last(rag_thread[p]).labels)
====
